---- MODULE Spec2Model ----
(***************************************************************************)
(* The Wave Function Collapse solver of wfc_terrain_generator.py:          *)
(* class WaveFunctionCollapse, its grid, collapse_cell,                    *)
(* create_terrain_module, propagate_constraints, find_min_entropy_cell,    *)
(* run() and place_environmental_objects.                                  *)
(*                                                                         *)
(* A cell of self.grid is a Python list of candidate names (superposition) *)
(* or a Python str (collapsed).  Here it is a record                       *)
(*     [is_list |-> TRUE,  val |-> <<candidates in list order>>]           *)
(*     [is_list |-> FALSE, val |-> <<the terrain type>>]                   *)
(* so that isinstance(cell, list) is cell.is_list.                         *)
(***************************************************************************)
EXTENDS Integers, Sequences, FiniteSets, Bags

(***************************************************************************)
(* Bounds of the model.                                                    *)
(***************************************************************************)
\* side of the grid on which run() is explored with every random draw
GridSize == 3
\* side of the larger grid, explored with the first minimum-entropy cell found
\* and the first or the last of its candidates
BigGridSize == 4
\* number of collapse_cell calls an arbitrary caller makes on one object
MaxCollapses == 2
\* number of terrain templates whose creation fails in one constructor call
MaxTemplateFailures == 1
\* side of the grid on which run() is followed through its placement pass
PlaceGridSize == 2
\* number of objects the placement pass places (draws of random.random()
\* below 0.3) in one run
MaxEnvObjects == 2

(***************************************************************************)
(* The module-level tables.                                                *)
(***************************************************************************)
TERRAIN_TYPES ==
    <<"mountain_peak", "slope", "plateau", "valley_floor", "riverbed", "shoreline">>

CONNECTION_RULES ==
    [t \in {"mountain_peak", "slope", "plateau", "valley_floor", "riverbed", "shoreline"} |->
        CASE t = "mountain_peak" -> <<"mountain_peak", "slope">>
          [] t = "slope"         -> <<"mountain_peak", "slope", "plateau", "valley_floor">>
          [] t = "plateau"       -> <<"slope", "plateau", "valley_floor">>
          [] t = "valley_floor"  -> <<"slope", "plateau", "valley_floor", "riverbed">>
          [] t = "riverbed"      -> <<"valley_floor", "riverbed", "shoreline">>
          [] t = "shoreline"     -> <<"riverbed", "shoreline">>]

\* heights in tenths: 3.0, 2.0, 1.5, 1.0, 0.5, 0.2
HEIGHT_VALUES ==
    [t \in {"mountain_peak", "slope", "plateau", "valley_floor", "riverbed", "shoreline"} |->
        CASE t = "mountain_peak" -> 30
          [] t = "slope"         -> 20
          [] t = "plateau"       -> 15
          [] t = "valley_floor"  -> 10
          [] t = "riverbed"      -> 5
          [] t = "shoreline"     -> 2]

\* the items of the dict in its order; slopes in tenths: 0.2, 0.6, 0.8
OBJECT_TYPES ==
    << [obj_type |-> "house", valid_terrain |-> <<"plateau", "valley_floor">>,
        min_slope |-> 0, max_slope |-> 2],
       [obj_type |-> "tree", valid_terrain |-> <<"slope", "plateau", "valley_floor">>,
        min_slope |-> 0, max_slope |-> 6],
       [obj_type |-> "rock",
        valid_terrain |-> <<"mountain_peak", "slope", "plateau", "valley_floor", "shoreline">>,
        min_slope |-> 0, max_slope |-> 8] >>

\* the bound 0.4 of random.uniform(-0.4, 0.4), in tenths
OffsetTenths == 4

\* the value None of an omitted terrain_type argument and of a missing result
None == "None"

(***************************************************************************)
(* Python helpers.                                                         *)
(***************************************************************************)
\* e in seq
In(e, seq) == \E i \in 1..Len(seq) : seq[i] = e

\* the elements of a list, as a set
Elems(seq) == {seq[i] : i \in 1..Len(seq)}

\* a cell that holds a list of candidates / a single terrain type
ListCell(cands) == [is_list |-> TRUE, val |-> cands]
StrCell(terrain_type) == [is_list |-> FALSE, val |-> <<terrain_type>>]

\* the coordinates of a grid of side n
Coords(n) == (0..(n - 1)) \X (0..(n - 1))

VARIABLES
    grid_size,          \* self.grid_size
    grid,               \* self.grid: <<x, y>> -> cell
    terrain_templates,  \* self.terrain_templates: type -> "object" or None
    placed_objects,     \* self.placed_objects: the objects appended so far
    pc,                 \* position in run(), or "api" for an outside caller
    placed_cells,       \* run()'s local counter
    collapses,          \* collapse_cell calls made so far by an outside caller
    last,               \* the last call made on the object and what it returned
    worklist,           \* propagate_constraints' local stack, while the call is
                        \* followed iteration by iteration
    env_objects_data,   \* place_environmental_objects' local list
    pos                 \* place_environmental_objects' position in its loops

vars == <<grid_size, grid, terrain_templates, placed_objects, pc, placed_cells,
          collapses, last, worklist, env_objects_data, pos>>

(***************************************************************************)
(* get_neighbors: Left, Right, Down, Up, each only when inside the grid.   *)
(***************************************************************************)
\* get_neighbors wrapping around the sides of the grid
get_neighbors_Wrap(n, x, y) ==
    << <<(x - 1) % n, y>>, <<(x + 1) % n, y>>, <<x, (y - 1) % n>>, <<x, (y + 1) % n>> >>

\* get_neighbors with the upper bound of y off by one (the Up neighbour of
\* the row below the top is lost)
get_neighbors_UpOffByOne(n, x, y) ==
    (IF x > 0 THEN <<<<x - 1, y>>>> ELSE <<>>)
    \o (IF x < n - 1 THEN <<<<x + 1, y>>>> ELSE <<>>)
    \o (IF y > 0 THEN <<<<x, y - 1>>>> ELSE <<>>)
    \o (IF y < n - 2 THEN <<<<x, y + 1>>>> ELSE <<>>)

get_neighbors(n, x, y) ==
    (IF x > 0 THEN <<<<x - 1, y>>>> ELSE <<>>)
    \o (IF x < n - 1 THEN <<<<x + 1, y>>>> ELSE <<>>)
    \o (IF y > 0 THEN <<<<x, y - 1>>>> ELSE <<>>)
    \o (IF y < n - 1 THEN <<<<x, y + 1>>>> ELSE <<>>)

(***************************************************************************)
(* propagate_constraints.  The for loop over the neighbours of the popped  *)
(* cell: a neighbour that is a list is filtered by valid_neighbors and,    *)
(* when it got shorter, stored and pushed on the stack.                    *)
(***************************************************************************)
\* new_possibilities taken to be valid_neighbors, not the intersection
new_possibilities_Assign(neighbor_cell, valid_neighbors) == valid_neighbors

new_possibilities(neighbor_cell, valid_neighbors) ==
    SelectSeq(neighbor_cell, LAMBDA t : In(t, valid_neighbors))

\* the for loop storing every shorter list in the first neighbour
RECURSIVE UpdateNeighbors_FirstNeighbor(_, _, _, _, _)
UpdateNeighbors_FirstNeighbor(g, stack, valid_neighbors, neighbors, i) ==
    IF i > Len(neighbors) THEN [grid |-> g, stack |-> stack]
    ELSE LET nb == neighbors[i]
             neighbor_cell == g[nb]
         IN  IF ~neighbor_cell.is_list
             THEN UpdateNeighbors_FirstNeighbor(g, stack, valid_neighbors, neighbors, i + 1)
             ELSE LET new == new_possibilities(neighbor_cell.val, valid_neighbors)
                  IN  IF Len(new) < Len(neighbor_cell.val)
                      THEN UpdateNeighbors_FirstNeighbor(
                               [g EXCEPT ![neighbors[1]] = ListCell(new)],
                               Append(stack, nb), valid_neighbors, neighbors, i + 1)
                      ELSE UpdateNeighbors_FirstNeighbor(g, stack, valid_neighbors,
                                                         neighbors, i + 1)

RECURSIVE UpdateNeighbors(_, _, _, _, _)
UpdateNeighbors(g, stack, valid_neighbors, neighbors, i) ==
    IF i > Len(neighbors) THEN [grid |-> g, stack |-> stack]
    ELSE LET nb == neighbors[i]
             neighbor_cell == g[nb]
         IN  IF ~neighbor_cell.is_list
             THEN UpdateNeighbors(g, stack, valid_neighbors, neighbors, i + 1)
             ELSE LET new == new_possibilities(neighbor_cell.val, valid_neighbors)
                  IN  IF Len(new) < Len(neighbor_cell.val)
                      THEN UpdateNeighbors([g EXCEPT ![nb] = ListCell(new)],
                                           Append(stack, nb),
                                           valid_neighbors, neighbors, i + 1)
                      ELSE UpdateNeighbors(g, stack, valid_neighbors, neighbors, i + 1)

\* the while loop going on from a popped cell that is still a list, with the
\* types some candidate of the cell allows as valid_neighbors
RECURSIVE PropagateStack_NoSkip(_, _, _)
PropagateStack_NoSkip(n, g, stack) ==
    IF stack = <<>> THEN g
    ELSE LET current == stack[Len(stack)]
             rest == SubSeq(stack, 1, Len(stack) - 1)
             current_type == g[current]
             valid == SelectSeq(TERRAIN_TYPES,
                                LAMBDA t : \E i \in 1..Len(current_type.val) :
                                               In(t, CONNECTION_RULES[current_type.val[i]]))
             r == UpdateNeighbors(g, rest, valid,
                                  get_neighbors(n, current[1], current[2]), 1)
         IN  PropagateStack_NoSkip(n, r.grid, r.stack)

\* the while loop: pop the last coordinate; a cell still a list is skipped
RECURSIVE PropagateStack(_, _, _)
PropagateStack(n, g, stack) ==
    IF stack = <<>> THEN g
    ELSE LET current == stack[Len(stack)]
             rest == SubSeq(stack, 1, Len(stack) - 1)
             current_type == g[current]
         IN  IF current_type.is_list
             THEN PropagateStack(n, g, rest)
             ELSE LET r == UpdateNeighbors(g, rest,
                                           CONNECTION_RULES[current_type.val[1]],
                                           get_neighbors(n, current[1], current[2]), 1)
                  IN  PropagateStack(n, r.grid, r.stack)

\* propagate_constraints returning at once, the grid as it was
propagate_constraints_Skip(n, g, x, y) == g

propagate_constraints(n, g, x, y) == PropagateStack(n, g, <<<<x, y>>>>)

(***************************************************************************)
(* create_terrain_module: returns without a call to the host when the type *)
(* has no template entry; raises (AttributeError on None.copy()) when      *)
(* the entry is None; else appends the object named Terrain_x_y_type.      *)
(* Nothing ever reads self.placed_objects, so the list is kept as the bag  *)
(* of the objects appended (how many times each <<x, y, type>> was made);  *)
(* the object a call appended is also in the record of the call (last).    *)
(***************************************************************************)
\* create_terrain_module with the template test inverted: it returns when
\* the type has a template
create_terrain_module_TestInverted(tt, po, x, y, terrain_type) ==
    IF DOMAIN tt = {} \/ terrain_type \in DOMAIN tt
    THEN [placed_objects |-> po, made |-> <<>>, raised |-> FALSE]
    ELSE [placed_objects |-> po (+) SetToBag({<<x, y, terrain_type>>}),
          made |-> <<<<x, y, terrain_type>>>>, raised |-> FALSE]

create_terrain_module(tt, po, x, y, terrain_type) ==
    IF DOMAIN tt = {} \/ terrain_type \notin DOMAIN tt
    THEN [placed_objects |-> po, made |-> <<>>, raised |-> FALSE]
    ELSE IF tt[terrain_type] = None
         THEN [placed_objects |-> po, made |-> <<>>, raised |-> TRUE]
         ELSE [placed_objects |-> po (+) SetToBag({<<x, y, terrain_type>>}),
               made |-> <<<<x, y, terrain_type>>>>, raised |-> FALSE]

(***************************************************************************)
(* collapse_cell(x, y, terrain_type).  draw is the index random.choice     *)
(* picks in the candidate list (0-based), used when terrain_type is None.  *)
(* The result is the new grid and placed_objects, the value returned       *)
(* ("True", "False", or "raised" when create_terrain_module raised) and    *)
(* realized, the create_terrain_module calls made, as <<x, y, type>>.      *)
(* x and y are not negative; self.grid[x, y] raises IndexError, before     *)
(* anything is stored, when they are not inside the array.                 *)
(***************************************************************************)
collapse_cell(n, g, tt, po, x, y, terrain_type, draw) ==
    IF <<x, y>> \notin DOMAIN g
    THEN [grid |-> g, placed_objects |-> po, ret |-> "raised", realized |-> <<>>]
    ELSE
    IF terrain_type = None /\ ~(g[<<x, y>>].is_list /\ Len(g[<<x, y>>].val) > 0)
    THEN [grid |-> g, placed_objects |-> po, ret |-> "False", realized |-> <<>>]
    ELSE LET chosen == IF terrain_type = None
                       THEN g[<<x, y>>].val[draw + 1]
                       ELSE terrain_type
             g1 == [g EXCEPT ![<<x, y>>] = StrCell(chosen)]
             made == create_terrain_module(tt, po, x, y, chosen)
         IN  IF made.raised
             THEN [grid |-> g1, placed_objects |-> made.placed_objects,
                   ret |-> "raised", realized |-> <<<<x, y, chosen>>>>]
             ELSE [grid |-> propagate_constraints(n, g1, x, y),
                   placed_objects |-> made.placed_objects,
                   ret |-> "True", realized |-> <<<<x, y, chosen>>>>]

(***************************************************************************)
(* find_min_entropy_cell: the scan in x-major order that keeps the         *)
(* smallest length seen and the cells that have it.  MinCells is min_cells *)
(* after the scan; the function returns None when it is empty and          *)
(* random.choice(min_cells) otherwise.                                     *)
(***************************************************************************)
\* float('inf'): larger than the length of any candidate list
inf == Len(TERRAIN_TYPES) + 1

\* the scan restarting min_cells on a tie (entropy <= min_entropy): only the
\* last cell found with the least length is kept
RECURSIVE ScanCells_RestartOnTie(_, _, _, _, _)
ScanCells_RestartOnTie(n, g, k, min_entropy, min_cells) ==
    IF k >= n * n THEN min_cells
    ELSE LET x == k \div n
             y == k % n
             cell == g[<<x, y>>]
         IN  IF cell.is_list /\ Len(cell.val) > 0
             THEN LET entropy == Len(cell.val)
                  IN  IF entropy <= min_entropy
                      THEN ScanCells_RestartOnTie(n, g, k + 1, entropy, <<<<x, y>>>>)
                      ELSE ScanCells_RestartOnTie(n, g, k + 1, min_entropy, min_cells)
             ELSE ScanCells_RestartOnTie(n, g, k + 1, min_entropy, min_cells)

RECURSIVE ScanCells(_, _, _, _, _)
ScanCells(n, g, k, min_entropy, min_cells) ==
    IF k >= n * n THEN min_cells
    ELSE LET x == k \div n
             y == k % n
             cell == g[<<x, y>>]
         IN  IF cell.is_list /\ Len(cell.val) > 0
             THEN LET entropy == Len(cell.val)
                  IN  IF entropy < min_entropy
                      THEN ScanCells(n, g, k + 1, entropy, <<<<x, y>>>>)
                      ELSE IF entropy = min_entropy
                           THEN ScanCells(n, g, k + 1, min_entropy, Append(min_cells, <<x, y>>))
                           ELSE ScanCells(n, g, k + 1, min_entropy, min_cells)
             ELSE ScanCells(n, g, k + 1, min_entropy, min_cells)

MinCells(n, g) == ScanCells(n, g, 0, inf, <<>>)

(***************************************************************************)
(* The indices random.choice may pick in a list of length len: any of them *)
(* under "all"; the first and the last under "ends"; the first under       *)
(* "first".                                                                *)
(***************************************************************************)
Draws(policy, len) ==
    CASE policy = "all"   -> 0..(len - 1)
      [] policy = "ends"  -> {0, len - 1} \cap (0..(len - 1))
      [] policy = "first" -> {0} \cap (0..(len - 1))

(***************************************************************************)
(* The record of a call: the operation, its arguments, the value returned  *)
(* (for find_min_entropy_cell the cell returned, as a list of 0 or 1) and  *)
(* the create_terrain_module calls it made.                                *)
(***************************************************************************)
Call(op, x, y, terrain_type, ret, cell, realized) ==
    [op |-> op, x |-> x, y |-> y, terrain_type |-> terrain_type,
     ret |-> ret, cell |-> cell, realized |-> realized]

(***************************************************************************)
(* __init__: every cell holds a copy of TERRAIN_TYPES, every terrain type  *)
(* has its template, nothing is placed.                                    *)
(***************************************************************************)
\* __init__ filling every cell with the first five terrain types only
Constructed_FiveTypes(n) ==
    /\ grid_size = n
    /\ grid = [c \in Coords(n) |-> ListCell(SubSeq(TERRAIN_TYPES, 1, 5))]
    /\ terrain_templates = [t \in Elems(TERRAIN_TYPES) |-> "object"]
    /\ placed_objects = EmptyBag
    /\ placed_cells = 0
    /\ collapses = 0
    /\ last = Call("__init__", 0, 0, None, None, <<>>, <<>>)
    /\ worklist = <<>>
    /\ env_objects_data = <<>>
    /\ pos = 0

Constructed(n) ==
    /\ grid_size = n
    /\ grid = [c \in Coords(n) |-> ListCell(TERRAIN_TYPES)]
    /\ terrain_templates = [t \in Elems(TERRAIN_TYPES) |-> "object"]
    /\ placed_objects = EmptyBag
    /\ placed_cells = 0
    /\ collapses = 0
    /\ last = Call("__init__", 0, 0, None, None, <<>>, <<>>)
    /\ worklist = <<>>
    /\ env_objects_data = <<>>
    /\ pos = 0

Init == Constructed(GridSize) /\ pc = "seed"

InitBig == Constructed(BigGridSize) /\ pc = "seed"

InitApi == Constructed(GridSize) /\ pc = "api"

(***************************************************************************)
(* A caller that collapses cells before it calls run(): the calls          *)
(* collapse_cell(x, y, terrain_type) for the cells k .. count - 1 of the   *)
(* grid in x-major order, all with the same terrain type.                  *)
(***************************************************************************)
RECURSIVE PreCollapse(_, _, _, _, _, _, _)
PreCollapse(n, g, tt, po, k, count, terrain_type) ==
    IF k >= count THEN [grid |-> g, placed_objects |-> po]
    ELSE LET r == collapse_cell(n, g, tt, po, k \div n, k % n, terrain_type, 0)
         IN  PreCollapse(n, r.grid, tt, r.placed_objects, k + 1, count, terrain_type)

\* run() about to be called on an object of side n on which the first count
\* cells, any number of them up to all, were collapsed to one type
PreCollapsed(n) ==
    \E count \in 0..(n * n), terrain_type \in Elems(TERRAIN_TYPES) :
        LET tt == [t \in Elems(TERRAIN_TYPES) |-> "object"]
            fresh == [c \in Coords(n) |-> ListCell(TERRAIN_TYPES)]
            r == PreCollapse(n, fresh, tt, EmptyBag, 0, count, terrain_type)
        IN  /\ grid_size = n
            /\ grid = r.grid
            /\ terrain_templates = tt
            /\ placed_objects = r.placed_objects
            /\ pc = "seed"
            /\ placed_cells = 0
            /\ collapses = 0
            /\ last = IF count = 0
                      THEN Call("__init__", 0, 0, None, None, <<>>, <<>>)
                      ELSE Call("collapse_cell", (count - 1) \div n, (count - 1) % n,
                                terrain_type, "True", <<>>,
                                <<<<(count - 1) \div n, (count - 1) % n, terrain_type>>>>)
            /\ worklist = <<>>
            /\ env_objects_data = <<>>
            /\ pos = 0

InitPre == PreCollapsed(GridSize)

\* the sides from 1, a single cell without neighbours, to PlaceGridSize
InitPlace == \E n \in 1..PlaceGridSize : PreCollapsed(n)

(***************************************************************************)
(* The constructor followed from the call on.  New(sizes) is the state at  *)
(* the call WaveFunctionCollapse(grid_size), grid_size any of sizes, with  *)
(* nothing built yet.  Construct(failures) is __init__: np.zeros raises    *)
(* ValueError when grid_size is negative; otherwise every cell gets a copy *)
(* of TERRAIN_TYPES and every terrain type its template, which             *)
(* create_terrain_template makes None when the host raises while the cube  *)
(* is created; at most `failures` of the six calls fail that way.          *)
(* Nothing else in __init__ looks at grid_size.                            *)
(***************************************************************************)
\* create_terrain_template returning the module whether or not the host
\* raised
create_terrain_template_NeverNone(host_raises) == "object"

create_terrain_template(host_raises) == IF host_raises THEN None ELSE "object"

New(sizes) ==
    /\ pc = "new"
    /\ grid_size \in sizes
    /\ grid = <<>>
    /\ terrain_templates = <<>>
    /\ placed_objects = EmptyBag
    /\ placed_cells = 0
    /\ collapses = 0
    /\ last = Call("WaveFunctionCollapse", 0, 0, None, None, <<>>, <<>>)
    /\ worklist = <<>>
    /\ env_objects_data = <<>>
    /\ pos = 0

Construct(failures) ==
    /\ pc = "new"
    /\ IF grid_size < 0
       THEN /\ pc' = "raised"
            /\ last' = Call("__init__", 0, 0, None, "raised", <<>>, <<>>)
            /\ UNCHANGED <<grid, terrain_templates>>
       ELSE /\ grid' = [c \in Coords(grid_size) |-> ListCell(TERRAIN_TYPES)]
            /\ \E failing \in SUBSET Elems(TERRAIN_TYPES) :
                 /\ Cardinality(failing) <= failures
                 /\ terrain_templates' =
                        [t \in Elems(TERRAIN_TYPES) |->
                            create_terrain_template(t \in failing)]
            /\ pc' = "seed"
            /\ last' = Call("__init__", 0, 0, None, None, <<>>, <<>>)
    /\ UNCHANGED <<grid_size, placed_objects, placed_cells, collapses>>
    /\ UNCHANGED <<worklist, env_objects_data, pos>>

(***************************************************************************)
(* run(): the seed, one iteration of the main loop, the exit of the loop.  *)
(* pc is "seed" before the seed, "loop" at the top of the while loop,      *)
(* "place" at the call of place_environmental_objects and in it, "done"    *)
(* when run() has returned, and "raised" when an exception left it.        *)
(***************************************************************************)
\* the seed put on the corner (0, 0)
RunSeed_Corner ==
    /\ pc = "seed"
    /\ LET r == collapse_cell(grid_size, grid, terrain_templates, placed_objects,
                              0, 0, "mountain_peak", 0)
       IN  /\ grid' = r.grid
           /\ placed_objects' = r.placed_objects
           /\ last' = Call("collapse_cell", 0, 0, "mountain_peak", r.ret, <<>>, r.realized)
           /\ IF r.ret = "raised"
              THEN pc' = "raised" /\ placed_cells' = placed_cells
              ELSE pc' = "loop" /\ placed_cells' = 1
    /\ UNCHANGED <<grid_size, terrain_templates, collapses>>
    /\ UNCHANGED <<worklist, env_objects_data, pos>>

\* center_x, center_y = grid_size // 2; collapse_cell(..., "mountain_peak")
RunSeed ==
    /\ pc = "seed"
    /\ LET c == grid_size \div 2
           r == collapse_cell(grid_size, grid, terrain_templates, placed_objects,
                              c, c, "mountain_peak", 0)
       IN  /\ grid' = r.grid
           /\ placed_objects' = r.placed_objects
           /\ last' = Call("collapse_cell", c, c, "mountain_peak", r.ret, <<>>, r.realized)
           /\ IF r.ret = "raised"
              THEN pc' = "raised" /\ placed_cells' = placed_cells
              ELSE pc' = "loop" /\ placed_cells' = 1
    /\ UNCHANGED <<grid_size, terrain_templates, collapses>>
    /\ UNCHANGED <<worklist, env_objects_data, pos>>

\* min_cell is not None: collapse_cell(x, y); placed_cells += 1
RunCollapse(cell_policy, type_policy) ==
    /\ pc = "loop"
    /\ LET min_cells == MinCells(grid_size, grid)
       IN  /\ min_cells # <<>>
           /\ \E i \in Draws(cell_policy, Len(min_cells)) :
                LET min_cell == min_cells[i + 1]
                IN  \E draw \in Draws(type_policy, Len(grid[min_cell].val)) :
                      LET r == collapse_cell(grid_size, grid, terrain_templates,
                                             placed_objects, min_cell[1], min_cell[2],
                                             None, draw)
                      IN  /\ grid' = r.grid
                          /\ placed_objects' = r.placed_objects
                          /\ last' = Call("collapse_cell", min_cell[1], min_cell[2], None,
                                          r.ret, <<>>, r.realized)
                          /\ IF r.ret = "raised"
                             THEN pc' = "raised" /\ placed_cells' = placed_cells
                             ELSE pc' = "loop" /\ placed_cells' = placed_cells + 1
    /\ UNCHANGED <<grid_size, terrain_templates, collapses>>
    /\ UNCHANGED <<worklist, env_objects_data, pos>>

\* min_cell is None: break; control reaches self.place_environmental_objects()
RunBreak ==
    /\ pc = "loop"
    /\ MinCells(grid_size, grid) = <<>>
    /\ pc' = "place"
    /\ last' = Call("find_min_entropy_cell", 0, 0, None, None, <<>>, <<>>)
    /\ UNCHANGED <<grid_size, grid, terrain_templates, placed_objects, placed_cells,
                   collapses>>
    /\ UNCHANGED <<worklist, env_objects_data, pos>>

Next == RunSeed \/ RunCollapse("all", "all") \/ RunBreak

Spec == Init /\ [][Next]_vars

\* the configurations tried by the constructor: a negative size, zero, and
\* the sizes up to GridSize; at most MaxTemplateFailures templates fail; the
\* loop of run() takes the first of the cells of least length and any of its
\* candidates
InitNew == New(-1..GridSize)

NextNew == Construct(MaxTemplateFailures) \/ RunSeed \/ RunCollapse("first", "all") \/ RunBreak

SpecNew == InitNew /\ [][NextNew]_vars

SpecPre == InitPre /\ [][Next]_vars

NextBig == RunSeed \/ RunCollapse("first", "ends") \/ RunBreak

SpecBig == InitBig /\ [][NextBig]_vars

(***************************************************************************)
(* place_environmental_objects, followed one (cell, object type) pair at a *)
(* time: pos counts the pairs done, cells in x-major order and, within a   *)
(* cell, the object types in the order of OBJECT_TYPES.  Coordinates with  *)
(* an offset are in tenths of a cell: x + offset_x is 10 * x + ox.         *)
(***************************************************************************)
\* self.env_templates: __init__ gives every object type its template
env_templates == [o \in {OBJECT_TYPES[i].obj_type : i \in 1..Len(OBJECT_TYPES)} |-> "object"]

\* offsets drawn from a range wider by 0.2 on each side
Offsets_Wide == {-(OffsetTenths + 2), 0, OffsetTenths + 2}

\* the values random.uniform(-0.4, 0.4) is taken to return: the two ends and 0
Offsets == {-OffsetTenths, 0, OffsetTenths}

\* height_diffs without abs: the signed differences
height_diffs_Signed(n, g, x, y) ==
    LET neighbors == get_neighbors(n, x, y)
    IN  [i \in 1..Len(neighbors) |->
            HEIGHT_VALUES[g[<<x, y>>].val[1]] - HEIGHT_VALUES[g[neighbors[i]].val[1]]]

\* height_diffs of cell (x, y): one entry for each neighbour, in their order
height_diffs(n, g, x, y) ==
    LET neighbors == get_neighbors(n, x, y)
    IN  [i \in 1..Len(neighbors) |->
            LET d == HEIGHT_VALUES[g[<<x, y>>].val[1]] - HEIGHT_VALUES[g[neighbors[i]].val[1]]
            IN  IF d < 0 THEN -d ELSE d]

\* HEIGHT_VALUES[...] raises TypeError when its key is a list: the cell has a
\* neighbour and the cell or one of its neighbours is not collapsed
slope_raises(n, g, x, y) ==
    LET neighbors == get_neighbors(n, x, y)
    IN  /\ neighbors # <<>>
        /\ \/ g[<<x, y>>].is_list
           \/ \E i \in 1..Len(neighbors) : g[neighbors[i]].is_list


\* slope with min in the place of max
slope_Min(n, g, x, y) ==
    LET diffs == height_diffs(n, g, x, y)
    IN  IF diffs = <<>> THEN 0
        ELSE CHOOSE m \in Elems(diffs) : \A d \in Elems(diffs) : m <= d

\* slope = max(height_diffs) if height_diffs else 0
slope(n, g, x, y) ==
    LET diffs == height_diffs(n, g, x, y)
    IN  IF diffs = <<>> THEN 0
        ELSE CHOOSE m \in Elems(diffs) : \A d \in Elems(diffs) : m >= d

\* the test of an object type that leaves out valid_terrain
eligible_AnyTerrain(obj_props, cell, s) ==
    obj_props.min_slope <= s /\ s <= obj_props.max_slope

\* terrain_type in valid_terrain and min_slope <= slope <= max_slope; a cell
\* that holds a list is in no valid_terrain
eligible(obj_props, cell, s) ==
    /\ ~cell.is_list
    /\ In(cell.val[1], obj_props.valid_terrain)
    /\ obj_props.min_slope <= s /\ s <= obj_props.max_slope

\* create_env_object: the object appended to self.placed_objects
create_env_object(po, obj_type, x, y, terrain_type) ==
    IF obj_type \notin DOMAIN env_templates THEN po
    ELSE po (+) SetToBag({<<"Env", obj_type, x, y>>})

\* the cells taken in y-major order
PlaceCell_YMajor == <<(pos \div Len(OBJECT_TYPES)) % grid_size,
                      (pos \div Len(OBJECT_TYPES)) \div grid_size>>

\* the cell and the object type of the pair the pass is at
PlaceCell == <<(pos \div Len(OBJECT_TYPES)) \div grid_size,
               (pos \div Len(OBJECT_TYPES)) % grid_size>>
PlaceObj == OBJECT_TYPES[(pos % Len(OBJECT_TYPES)) + 1]

InPass == pc = "place" /\ pos < grid_size * grid_size * Len(OBJECT_TYPES)

\* the slope of the cell cannot be computed: TypeError leaves the pass and run()
PlaceRaise ==
    /\ InPass
    /\ slope_raises(grid_size, grid, PlaceCell[1], PlaceCell[2])
    /\ pc' = "raised"
    /\ last' = Call("place_environmental_objects", PlaceCell[1], PlaceCell[2], None,
                    "raised", <<>>, <<>>)
    /\ UNCHANGED <<grid_size, grid, terrain_templates, placed_objects, placed_cells,
                   collapses, worklist, env_objects_data, pos>>

\* the object type is not eligible on the cell, or random.random() >= 0.3
PlaceSkip ==
    /\ InPass
    /\ ~slope_raises(grid_size, grid, PlaceCell[1], PlaceCell[2])
    /\ pos' = pos + 1
    /\ last' = Call("place_environmental_objects", PlaceCell[1], PlaceCell[2], None,
                    None, <<>>, <<>>)
    /\ UNCHANGED <<grid_size, grid, terrain_templates, placed_objects, pc, placed_cells,
                   collapses, worklist, env_objects_data>>

\* the pair put with the grid written: the cell stored as a one-candidate list
PlacePut_WritesGrid ==
    /\ InPass
    /\ ~slope_raises(grid_size, grid, PlaceCell[1], PlaceCell[2])
    /\ Len(env_objects_data) < MaxEnvObjects
    /\ grid' = [grid EXCEPT ![PlaceCell] = ListCell(grid[PlaceCell].val)]
    /\ pos' = pos + 1
    /\ UNCHANGED <<grid_size, terrain_templates, placed_objects, pc, placed_cells,
                   collapses, last, worklist, env_objects_data>>

\* the object type is eligible on the cell and random.random() < 0.3: the
\* offsets are drawn, create_env_object is called, the entry is appended
PlacePut ==
    /\ InPass
    /\ ~slope_raises(grid_size, grid, PlaceCell[1], PlaceCell[2])
    /\ eligible(PlaceObj, grid[PlaceCell],
                slope(grid_size, grid, PlaceCell[1], PlaceCell[2]))
    /\ Len(env_objects_data) < MaxEnvObjects
    /\ \E ox \in Offsets, oy \in Offsets :
         LET X == 10 * PlaceCell[1] + ox
             Y == 10 * PlaceCell[2] + oy
             terrain_type == grid[PlaceCell].val[1]
         IN  /\ placed_objects' = create_env_object(placed_objects, PlaceObj.obj_type,
                                                    X, Y, terrain_type)
             /\ env_objects_data' =
                    Append(env_objects_data,
                           [type |-> PlaceObj.obj_type, x |-> X, y |-> Y,
                            terrain |-> terrain_type])
             /\ last' = Call("create_env_object", X, Y, terrain_type, None, <<>>, <<>>)
    /\ pos' = pos + 1
    /\ UNCHANGED <<grid_size, grid, terrain_templates, pc, placed_cells, collapses,
                   worklist>>

\* return env_objects_data; run() prints its last line and returns
PlaceReturn ==
    /\ pc = "place"
    /\ pos = grid_size * grid_size * Len(OBJECT_TYPES)
    /\ pc' = "done"
    /\ last' = Call("place_environmental_objects", 0, 0, None, "env_objects_data",
                    <<>>, <<>>)
    /\ UNCHANGED <<grid_size, grid, terrain_templates, placed_objects, placed_cells,
                   collapses, worklist, env_objects_data, pos>>

\* run() as a whole, placement pass included, on a grid of side PlaceGridSize
\* which the caller left fresh or collapsed in part or in full
NextPlace ==
    \/ RunSeed \/ RunCollapse("all", "all") \/ RunBreak
    \/ PlaceRaise \/ PlaceSkip \/ PlacePut \/ PlaceReturn

SpecPlace == InitPlace /\ [][NextPlace]_vars

(***************************************************************************)
(* An outside caller of the object: collapse_cell with any coordinates and *)
(* any terrain type or none, at most MaxCollapses times, and               *)
(* find_min_entropy_cell at any time.                                      *)
(***************************************************************************)
ApiCollapseCell ==
    /\ pc = "api"
    /\ collapses < MaxCollapses
    /\ \E c \in Coords(grid_size), terrain_type \in Elems(TERRAIN_TYPES) \cup {None} :
         \E draw \in Draws("all", IF terrain_type = None /\ grid[c].is_list
                                  THEN Len(grid[c].val) ELSE 1) \cup {0} :
           LET r == collapse_cell(grid_size, grid, terrain_templates, placed_objects,
                                  c[1], c[2], terrain_type, draw)
           IN  /\ grid' = r.grid
               /\ placed_objects' = r.placed_objects
               /\ last' = Call("collapse_cell", c[1], c[2], terrain_type, r.ret,
                               <<>>, r.realized)
    /\ collapses' = collapses + 1
    /\ UNCHANGED <<grid_size, terrain_templates, pc, placed_cells>>
    /\ UNCHANGED <<worklist, env_objects_data, pos>>

ApiFindMinEntropyCell ==
    /\ pc = "api"
    /\ LET min_cells == MinCells(grid_size, grid)
       IN  IF min_cells = <<>>
           THEN last' = Call("find_min_entropy_cell", 0, 0, None, None, <<>>, <<>>)
           ELSE \E i \in Draws("all", Len(min_cells)) :
                  last' = Call("find_min_entropy_cell", 0, 0, None, "cell",
                               <<min_cells[i + 1]>>, <<>>)
    /\ UNCHANGED <<grid_size, grid, terrain_templates, placed_objects, pc,
                   placed_cells, collapses>>
    /\ UNCHANGED <<worklist, env_objects_data, pos>>

NextApi == ApiCollapseCell \/ ApiFindMinEntropyCell

SpecApi == InitApi /\ [][NextApi]_vars

(***************************************************************************)
(* propagate_constraints followed one iteration of its while loop at a     *)
(* time, for the calls of an outside caller: collapse_cell, which stores   *)
(* the type, makes the terrain object and calls propagate_constraints, and *)
(* propagate_constraints itself on any cell.  pc is "propagate" while the  *)
(* loop runs, worklist is its stack.                                       *)
(***************************************************************************)
\* one iteration that reads the top of the stack and leaves it there
PropagateIteration_Peek(n, g, stack) ==
    LET current == stack[Len(stack)]
        current_type == g[current]
    IN  IF current_type.is_list
        THEN [grid |-> g, stack |-> stack]
        ELSE UpdateNeighbors(g, stack, CONNECTION_RULES[current_type.val[1]],
                             get_neighbors(n, current[1], current[2]), 1)

\* one iteration of `while stack:`, for a stack that is not empty
PropagateIteration(n, g, stack) ==
    LET current == stack[Len(stack)]
        rest == SubSeq(stack, 1, Len(stack) - 1)
        current_type == g[current]
    IN  IF current_type.is_list
        THEN [grid |-> g, stack |-> rest]
        ELSE UpdateNeighbors(g, rest, CONNECTION_RULES[current_type.val[1]],
                             get_neighbors(n, current[1], current[2]), 1)

\* collapse_cell up to its call of propagate_constraints
PropCollapseCell ==
    /\ pc = "api"
    /\ collapses < MaxCollapses
    /\ \E c \in Coords(grid_size), terrain_type \in Elems(TERRAIN_TYPES) \cup {None} :
         IF terrain_type = None /\ ~(grid[c].is_list /\ Len(grid[c].val) > 0)
         THEN /\ last' = Call("collapse_cell", c[1], c[2], terrain_type, "False",
                              <<>>, <<>>)
              /\ UNCHANGED <<grid, placed_objects, pc, worklist>>
         ELSE \E draw \in Draws("all", IF terrain_type = None
                                       THEN Len(grid[c].val) ELSE 1) :
                LET chosen == IF terrain_type = None
                              THEN grid[c].val[draw + 1]
                              ELSE terrain_type
                    made == create_terrain_module(terrain_templates, placed_objects,
                                                  c[1], c[2], chosen)
                IN  /\ grid' = [grid EXCEPT ![c] = StrCell(chosen)]
                    /\ placed_objects' = made.placed_objects
                    /\ pc' = "propagate"
                    /\ worklist' = <<c>>
                    /\ last' = Call("collapse_cell", c[1], c[2], terrain_type, "True",
                                    <<>>, made.made)
    /\ collapses' = collapses + 1
    /\ UNCHANGED <<grid_size, terrain_templates, placed_cells, env_objects_data, pos>>

\* propagate_constraints(x, y) called on any cell: stack = [(x, y)]
PropCall ==
    /\ pc = "api"
    /\ \E c \in Coords(grid_size) :
         /\ worklist' = <<c>>
         /\ last' = Call("propagate_constraints", c[1], c[2], None, None, <<>>, <<>>)
    /\ pc' = "propagate"
    /\ UNCHANGED <<grid_size, grid, terrain_templates, placed_objects, placed_cells,
                   collapses, env_objects_data, pos>>

\* `while stack:` with stack not empty
PropIterate ==
    /\ pc = "propagate"
    /\ worklist # <<>>
    /\ LET r == PropagateIteration(grid_size, grid, worklist)
       IN  /\ grid' = r.grid
           /\ worklist' = r.stack
    /\ UNCHANGED <<grid_size, terrain_templates, placed_objects, pc, placed_cells,
                   collapses, last, env_objects_data, pos>>

\* `while stack:` with stack empty: the call returns
PropReturn ==
    /\ pc = "propagate"
    /\ worklist = <<>>
    /\ pc' = "api"
    /\ UNCHANGED <<grid_size, grid, terrain_templates, placed_objects, placed_cells,
                   collapses, last, worklist, env_objects_data, pos>>

NextProp == PropCollapseCell \/ PropCall \/ PropIterate \/ PropReturn

\* the loop is sequential code that runs on: an iteration that can be taken
\* is taken, and so is the return
SpecProp ==
    InitApi /\ [][NextProp]_vars /\ WF_vars(PropIterate) /\ WF_vars(PropReturn)

(***************************************************************************)
(* Vocabulary of the properties.                                           *)
(***************************************************************************)
Abs(i) == IF i < 0 THEN -i ELSE i

\* c and d are direct (orthogonal) neighbours
Adjacent(c, d) == Abs(c[1] - d[1]) + Abs(c[2] - d[2]) = 1

Cells == Coords(grid_size)

\* collapsed: the cell holds a single terrain type
Collapsed(cell) == ~cell.is_list
TypeOf(cell) == cell.val[1]

\* superposition: the cell holds a non-empty list of candidates
Superposition(cell) == cell.is_list /\ Len(cell.val) > 0

\* contradiction: an uncollapsed cell whose candidate list is empty
Contradiction(cell) == cell.is_list /\ Len(cell.val) = 0

HasContradiction == \E c \in Cells : Contradiction(grid[c])

\* this step made a collapse_cell call (from run() or from an outside caller)
CollapseCellStep == placed_cells' # placed_cells \/ collapses' # collapses

\* C1: in run(), when the main loop is left (control at the placement pass),
\* exactly grid_size * grid_size cells have been collapsed, the seed included:
\* every cell of the grid holds a single terrain type.
C1_LoopExitsFullyCollapsed ==
    pc = "place" =>
        /\ placed_cells = grid_size * grid_size
        /\ \A c \in Cells : Collapsed(grid[c])

\* C2: no state of run() holds an uncollapsed cell with an empty candidate list.
C2_NoContradiction == ~HasContradiction

\* C3: once some uncollapsed cell has an empty candidate list, run() collapses
\* no further cell and does not leave the loop for the placement pass.
C3_ContradictionIsTerminal ==
    [][HasContradiction => (grid' = grid /\ pc' # "place")]_vars

\* C4: in run(), a cell that holds a single terrain type holds the same
\* terrain type after every later step.
C4_CollapsedNeverChanges ==
    [][\A c \in Cells : Collapsed(grid[c]) => grid'[c] = grid[c]]_vars

C4_Witness ==
    /\ pc = "place"
    /\ placed_cells = grid_size * grid_size
    /\ grid[<<grid_size \div 2, grid_size \div 2>>] = StrCell("mountain_peak")

\* C5: a collapse_cell call on a cell that is already collapsed or whose
\* candidate list is empty returns False, leaves the grid as it was and makes
\* no create_terrain_module call, with or without a terrain_type argument.
C5_CollapseOfSettledCellIsNoOp ==
    [][(CollapseCellStep /\ ~Superposition(grid[<<last'.x, last'.y>>])) =>
          /\ last'.ret = "False"
          /\ grid' = grid
          /\ last'.realized = <<>>
          /\ placed_objects' = placed_objects]_vars

\* C6: a cell that holds a candidate list after a step held a candidate list
\* before it, and every candidate it has after the step it had before.
C6_CandidatesOnlyShrink ==
    [][\A c \in Cells :
          grid'[c].is_list =>
              /\ grid[c].is_list
              /\ Elems(grid'[c].val) \subseteq Elems(grid[c].val)]_vars

C6_Witness ==
    /\ collapses = MaxCollapses
    /\ \E c \in Cells : grid[c].is_list /\ Len(grid[c].val) = 1

\* C7: when collapse_cell has collapsed cell C to type T, every direct
\* neighbour of C that held a candidate list holds the list of its former
\* candidates that are in CONNECTION_RULES[T]; and after the seed of run() the
\* direct neighbours of the centre, 4 of them, hold [mountain_peak, slope].
C7_NeighboursIntersected ==
    /\ [][(CollapseCellStep /\ last'.ret = "True") =>
            LET C == <<last'.x, last'.y>>
                T == TypeOf(grid'[C])
            IN  \A nb \in Cells :
                  (Adjacent(C, nb) /\ grid[nb].is_list) =>
                      /\ grid'[nb].is_list
                      /\ Elems(grid'[nb].val) =
                             Elems(grid[nb].val) \cap Elems(CONNECTION_RULES[T])]_vars
    /\ [](pc = "loop" /\ placed_cells = 1 =>
            LET C == <<grid_size \div 2, grid_size \div 2>>
            IN  /\ Cardinality({nb \in Cells : Adjacent(C, nb)}) = 4
                /\ \A nb \in Cells :
                     Adjacent(C, nb) => grid[nb] = ListCell(<<"mountain_peak", "slope">>))

C7_Witness ==
    /\ pc = "loop"
    /\ placed_cells = 1
    /\ grid[<<grid_size \div 2, grid_size \div 2>>] = StrCell("mountain_peak")
    /\ grid[<<grid_size \div 2, (grid_size \div 2) - 1>>]
           = ListCell(<<"mountain_peak", "slope">>)

\* C8: in run(), create_terrain_module has been called exactly once for each
\* collapsed cell and for nothing else, with the type the cell holds; and the
\* call for a cell is made in the step that collapses it, before any later
\* collapse.
C8_RealizedOncePerCollapse ==
    /\ [](\A c \in Cells, t \in Elems(TERRAIN_TYPES) :
            CopiesIn(<<c[1], c[2], t>>, placed_objects)
                = IF Collapsed(grid[c]) /\ TypeOf(grid[c]) = t THEN 1 ELSE 0)
    /\ [][\A c \in Cells :
            (~Collapsed(grid[c]) /\ Collapsed(grid'[c])) =>
                /\ last'.realized = <<<<c[1], c[2], TypeOf(grid'[c])>>>>
                /\ placed_objects' =
                       placed_objects (+) SetToBag({<<c[1], c[2], TypeOf(grid'[c])>>})]_vars

C8_Witness ==
    /\ pc = "place"
    /\ BagCardinality(placed_objects) = grid_size * grid_size
    /\ \A c \in Cells : Collapsed(grid[c])

\* C9: find_min_entropy_cell returns a cell in superposition whose number of
\* candidates is the least among the cells in superposition; each cell with
\* that least number can be the one returned; and it returns None exactly when
\* no cell is in superposition.
LeastCells ==
    {c \in Cells : /\ Superposition(grid[c])
                   /\ \A d \in Cells : Superposition(grid[d]) =>
                                           Len(grid[c].val) <= Len(grid[d].val)}

Centre == <<grid_size \div 2, grid_size \div 2>>

\* the Manhattan distance of two cells
Distance(c, d) == Abs(c[1] - d[1]) + Abs(c[2] - d[2])

\* C16: in run(), before the seed no cell is collapsed and nothing was called
\* on the object; the first step collapses the centre cell, and only it, to
\* mountain_peak by a collapse_cell call that names the type (no min-entropy
\* selection); and from then on, the final grid included, the centre holds
\* mountain_peak.
C16_SeedIsCentreMountainPeak ==
    /\ [](pc = "seed" => /\ \A c \in Cells : ~Collapsed(grid[c])
                         /\ last.op = "__init__")
    /\ [][pc = "seed" =>
            /\ last'.op = "collapse_cell"
            /\ <<last'.x, last'.y>> = Centre
            /\ last'.terrain_type = "mountain_peak"
            /\ {c \in Cells : Collapsed(grid'[c])} = {Centre}
            /\ grid'[Centre] = StrCell("mountain_peak")]_vars
    /\ [](pc \in {"loop", "place"} => grid[Centre] = StrCell("mountain_peak"))

C16_Witness ==
    /\ pc = "place"
    /\ last.op = "find_min_entropy_cell"
    /\ grid[Centre] = StrCell("mountain_peak")
    /\ \A c \in Cells : Collapsed(grid[c])
    /\ \E c \in Cells : TypeOf(grid[c]) \notin {"mountain_peak", "slope"}

\* C17: in every state of run(), two direct neighbours that are both collapsed
\* hold types each of which is in the CONNECTION_RULES list of the other.
C17_AdjacentCollapsedCompatible ==
    \A c \in Cells, d \in Cells :
        (Adjacent(c, d) /\ Collapsed(grid[c]) /\ Collapsed(grid[d])) =>
            /\ In(TypeOf(grid[d]), CONNECTION_RULES[TypeOf(grid[c])])
            /\ In(TypeOf(grid[c]), CONNECTION_RULES[TypeOf(grid[d])])

C17_Witness ==
    /\ pc = "place"
    /\ \A c \in Cells : Collapsed(grid[c])
    /\ \E c \in Cells, d \in Cells :
         /\ Adjacent(c, d)
         /\ TypeOf(grid[c]) = "slope"
         /\ TypeOf(grid[d]) = "valley_floor"

\* the types that every collapsed direct neighbour of cell c allows
AllowedByNeighbours(c) ==
    {t \in Elems(TERRAIN_TYPES) :
        \A d \in Cells :
            (Adjacent(c, d) /\ Collapsed(grid[d])) =>
                In(t, CONNECTION_RULES[TypeOf(grid[d])])}

\* C18: in run(), once collapse_cell has returned, the candidates of every
\* cell in superposition are exactly the terrain types that are in
\* CONNECTION_RULES[t] for the type t of each collapsed direct neighbour of
\* the cell (all six types when it has no collapsed direct neighbour).
C18_CandidatesAreIntersection ==
    placed_cells >= 1 =>
        \A c \in Cells :
            Superposition(grid[c]) => Elems(grid[c].val) = AllowedByNeighbours(c)

C18_Witness ==
    /\ pc = "loop"
    /\ \E c \in Cells, d \in Cells, e \in Cells :
         /\ Superposition(grid[c])
         /\ Adjacent(c, d) /\ Collapsed(grid[d])
         /\ Adjacent(c, e) /\ Collapsed(grid[e])
         /\ TypeOf(grid[d]) # TypeOf(grid[e])
    /\ \E c \in Cells :
         /\ grid[c] = ListCell(TERRAIN_TYPES)
         /\ \A d \in Cells : Adjacent(c, d) => ~Collapsed(grid[d])

\* C19: a collapse_cell call on cell (x, y) leaves every cell at Manhattan
\* distance 2 or more from (x, y) with the value it had before the call.
C19_CollapseChangesOnlyNeighbourhood ==
    [][CollapseCellStep =>
          \A c \in Cells :
              Distance(c, <<last'.x, last'.y>>) >= 2 => grid'[c] = grid[c]]_vars

C19_Witness ==
    /\ collapses = MaxCollapses
    /\ last.op = "collapse_cell"
    /\ last.ret = "True"
    /\ \E nb \in Cells :
         /\ Adjacent(nb, <<last.x, last.y>>)
         /\ AllowedByNeighbours(nb) # Elems(TERRAIN_TYPES)
         /\ Elems(grid[nb].val) = AllowedByNeighbours(nb)
    /\ \E c \in Cells :
         /\ Distance(c, <<last.x, last.y>>) >= 2
         /\ grid[c].is_list
         /\ Len(grid[c].val) \in 1..5

\* this step is a collapse_cell call of run() whose create_terrain_module
\* call found the template of the type None
RealizationFailed ==
    /\ pc \in {"seed", "loop"}
    /\ grid_size >= 1
    /\ last'.op = "collapse_cell"
    /\ last'.realized # <<>>
    /\ terrain_templates[last'.realized[1][3]] = None

\* C13: when the create_terrain_module call of a collapse_cell of run() fails
\* (the template of the type is None), collapse_cell still returns True, the
\* direct neighbours of the collapsed cell are filtered by the rule of its
\* type, and run() is at the top of its loop again, not left by an exception.
C13_RealizationFailureContained ==
    [][RealizationFailed =>
          /\ last'.ret = "True"
          /\ pc' = "loop"
          /\ LET C == <<last'.x, last'.y>>
                 T == last'.realized[1][3]
             IN  \A nb \in Cells :
                   (Adjacent(C, nb) /\ grid[nb].is_list) =>
                       Elems(grid'[nb].val) =
                           Elems(grid[nb].val) \cap Elems(CONNECTION_RULES[T])]_vars

\* C14: a grid_size below 1 is reported by the constructor: the object is
\* never constructed (run() never gets to its seed), and the exception is
\* raised by __init__.
C14_InvalidSizeReportedAtConstruction ==
    grid_size < 1 =>
        /\ pc \in {"new", "raised"}
        /\ pc = "raised" => last.op = "__init__"

\* C12: when run() is started on a grid in which every cell is collapsed, no
\* step of it changes a cell or calls create_terrain_module, the seed step
\* included, and the first find_min_entropy_cell call returns None.
C12_PreCollapsedRunIsNoOp ==
    [][(pc \in {"seed", "loop"} /\ \A c \in Cells : Collapsed(grid[c])) =>
          /\ grid' = grid
          /\ placed_objects' = placed_objects
          /\ last'.op = "collapse_cell" => last'.realized = <<>>
          /\ pc = "loop" => (pc' = "place" /\ last'.ret = None)]_vars

\* the slope of a collapsed cell among collapsed neighbours: the largest
\* difference of height, in tenths, to a direct neighbour; 0 without neighbours
CellSlope(c) ==
    LET diffs == {Abs(HEIGHT_VALUES[TypeOf(grid[c])] - HEIGHT_VALUES[TypeOf(grid[d])]) :
                    d \in {e \in Cells : Adjacent(c, e)}}
    IN  IF diffs = {} THEN 0 ELSE CHOOSE m \in diffs : \A d \in diffs : m >= d

\* the entry of OBJECT_TYPES for an object type
ObjectSpec(obj_type) ==
    CHOOSE o \in Elems(OBJECT_TYPES) : o.obj_type = obj_type

\* the cell an entry of env_objects_data was placed on
CellOf(entry) == <<(entry.x + 5) \div 10, (entry.y + 5) \div 10>>

\* C11: the placement pass places an object of type O on a cell only when the
\* terrain type of the cell is in O's valid_terrain and the slope s of the cell
\* has min_slope <= s <= max_slope; plateau with slope 0 passes the test for
\* house, mountain_peak passes it with no slope, and no house placed stands on
\* a mountain_peak cell.
C11_PlacedOnlyWhereEligible ==
    /\ [][Len(env_objects_data') > Len(env_objects_data) =>
            LET entry == env_objects_data'[Len(env_objects_data')]
                O == ObjectSpec(entry.type)
                s == CellSlope(PlaceCell)
            IN  /\ Len(env_objects_data') = Len(env_objects_data) + 1
                /\ CellOf(entry) = PlaceCell
                /\ entry.terrain = TypeOf(grid[PlaceCell])
                /\ In(entry.terrain, O.valid_terrain)
                /\ O.min_slope <= s /\ s <= O.max_slope]_vars
    /\ [](\A i \in 1..Len(env_objects_data) :
            env_objects_data[i].type = "house" =>
                /\ env_objects_data[i].terrain # "mountain_peak"
                /\ grid[CellOf(env_objects_data[i])] # StrCell("mountain_peak"))
    /\ [](/\ eligible(ObjectSpec("house"), StrCell("plateau"), 0)
          /\ \A s \in 0..HEIGHT_VALUES["mountain_peak"] :
                ~eligible(ObjectSpec("house"), StrCell("mountain_peak"), s))

C11_Witness ==
    /\ pc = "done"
    /\ \E i \in 1..Len(env_objects_data) :
         /\ env_objects_data[i].type = "house"
         /\ env_objects_data[i].terrain = "plateau"
         /\ CellSlope(CellOf(env_objects_data[i])) = 0
    /\ \E i \in 1..Len(env_objects_data) : env_objects_data[i].type = "rock"
    /\ \E c \in Cells : grid[c] = StrCell("mountain_peak")

\* the objects create_terrain_module appended, as <<x, y, type>>
TerrainObjects(po) ==
    {o \in BagToSet(po) : Len(o) = 3}

\* C15: no step of place_environmental_objects changes a cell of the grid, and
\* none is a collapse_cell or propagate_constraints call: no terrain object is
\* made, the collapse counter and the propagation stack stay as they are; the
\* grid after the pass is the grid before it.
C15_PlacementLeavesGrid ==
    [][pc = "place" =>
          /\ grid' = grid
          /\ last'.op \in {"place_environmental_objects", "create_env_object"}
          /\ TerrainObjects(placed_objects') = TerrainObjects(placed_objects)
          /\ \A o \in TerrainObjects(placed_objects) :
               CopiesIn(o, placed_objects') = CopiesIn(o, placed_objects)
          /\ placed_cells' = placed_cells
          /\ worklist' = worklist]_vars

C15_Witness ==
    /\ pc = "done"
    /\ Len(env_objects_data) = MaxEnvObjects
    /\ \A c \in Cells : Collapsed(grid[c])
    /\ \E c \in Cells, d \in Cells : TypeOf(grid[c]) # TypeOf(grid[d])

\* C20: from every grid and every start cell propagate_constraints comes to
\* an empty stack and returns; an iteration takes the top off the stack and
\* pushes only cells whose candidate list got strictly shorter in it.
C20_PropagationTerminates ==
    /\ (pc = "propagate") ~> (pc = "api" /\ worklist = <<>>)
    /\ [][(pc = "propagate" /\ worklist # <<>>) =>
            LET rest == SubSeq(worklist, 1, Len(worklist) - 1)
            IN  /\ Len(worklist') >= Len(rest)
                /\ SubSeq(worklist', 1, Len(rest)) = rest
                /\ \A i \in (Len(rest) + 1)..Len(worklist') :
                     /\ grid[worklist'[i]].is_list
                     /\ grid'[worklist'[i]].is_list
                     /\ Len(grid'[worklist'[i]].val) < Len(grid[worklist'[i]].val)]_vars

C20_Witness ==
    /\ pc = "propagate"
    /\ collapses = MaxCollapses
    /\ Len(worklist) >= 3
    /\ \E c \in Cells : Contradiction(grid[c])

\* C21: in the placement pass on a grid whose cells are all collapsed, the
\* slope computed for every cell is the largest absolute difference of
\* HEIGHT_VALUES (in tenths) between the cell and a direct neighbour inside
\* the grid, 0 for a cell without such a neighbour, and the computation raises
\* for no cell: the pass is not left by an exception.
C21_SlopeIsMaxHeightDifference ==
    /\ []((pc \in {"place", "done"} /\ \A c \in Cells : Collapsed(grid[c])) =>
            \A c \in Cells :
                /\ ~slope_raises(grid_size, grid, c[1], c[2])
                /\ slope(grid_size, grid, c[1], c[2]) = CellSlope(c)
                /\ (\A d \in Cells : ~Adjacent(c, d)) =>
                       slope(grid_size, grid, c[1], c[2]) = 0)
    /\ [][(pc = "place" /\ \A c \in Cells : Collapsed(grid[c])) => pc' # "raised"]_vars

C21_Witness ==
    /\ pc = "done"
    /\ \A c \in Cells : Collapsed(grid[c])
    /\ \E c \in Cells, d \in Cells, e \in Cells :
         /\ Adjacent(c, d) /\ Adjacent(c, e)
         /\ HEIGHT_VALUES[TypeOf(grid[c])] < HEIGHT_VALUES[TypeOf(grid[d])]
         /\ HEIGHT_VALUES[TypeOf(grid[c])] > HEIGHT_VALUES[TypeOf(grid[e])]
         /\ CellSlope(c) = HEIGHT_VALUES[TypeOf(grid[d])] - HEIGHT_VALUES[TypeOf(grid[c])]
         /\ CellSlope(c) > HEIGHT_VALUES[TypeOf(grid[c])] - HEIGHT_VALUES[TypeOf(grid[e])]

\* the place of an entry's (cell, object type) pair in the order x-major,
\* then y, then the order of OBJECT_TYPES, counted from 0
OrderKey(entry) ==
    (CellOf(entry)[1] * grid_size + CellOf(entry)[2]) * Len(OBJECT_TYPES)
        + (CHOOSE i \in 1..Len(OBJECT_TYPES) : OBJECT_TYPES[i].obj_type = entry.type) - 1

\* the objects create_env_object appended, as <<"Env", type, x, y>>
EnvObjects(po) ==
    {o \in BagToSet(po) : Len(o) = 4}

\* C22: the placement pass takes the (cell, object type) pairs one after the
\* other, cells in x-major then y order and object types in the order of
\* OBJECT_TYPES; a pair that is eligible can be placed and can be left whatever
\* was placed before (several object types on one cell included); a placement
\* makes exactly one create_env_object call and exactly one record; and the
\* records are in the order of the pairs.
C22_PlacementOrder ==
    /\ [][(pc = "place" /\ pc' = "place") => pos' = pos + 1]_vars
    /\ [][Len(env_objects_data') # Len(env_objects_data) =>
            LET entry == env_objects_data'[Len(env_objects_data')]
            IN  /\ env_objects_data' = Append(env_objects_data, entry)
                /\ OrderKey(entry) = pos
                /\ last'.op = "create_env_object"
                /\ placed_objects' =
                       placed_objects (+) SetToBag({<<"Env", entry.type, entry.x, entry.y>>})]_vars
    /\ [][placed_objects' # placed_objects /\ pc = "place" =>
            Len(env_objects_data') = Len(env_objects_data) + 1]_vars
    /\ [](\A i \in 1..Len(env_objects_data), j \in 1..Len(env_objects_data) :
            i < j => OrderKey(env_objects_data[i]) < OrderKey(env_objects_data[j]))
    /\ [](/\ Cardinality(EnvObjects(placed_objects)) = Len(env_objects_data)
          /\ \A o \in EnvObjects(placed_objects) : CopiesIn(o, placed_objects) = 1)
    /\ []((/\ InPass
           /\ ~slope_raises(grid_size, grid, PlaceCell[1], PlaceCell[2])
           /\ eligible(PlaceObj, grid[PlaceCell],
                       slope(grid_size, grid, PlaceCell[1], PlaceCell[2]))
           /\ Len(env_objects_data) < MaxEnvObjects)
          => (ENABLED PlacePut /\ ENABLED PlaceSkip))

C22_Witness ==
    /\ pc = "done"
    /\ Len(env_objects_data) = 2
    /\ CellOf(env_objects_data[1]) = CellOf(env_objects_data[2])
    /\ env_objects_data[1].type = "house"
    /\ env_objects_data[2].type = "rock"

\* C23: for every cell (x, y) of the grid, get_neighbors(x, y) lists exactly
\* those of (x-1, y), (x+1, y), (x, y-1), (x, y+1) that are inside the grid,
\* each once; on a grid of side 3 or more that is 2 cells for a corner, 3 for
\* an edge cell and 4 for an interior cell; and a is listed for b exactly when
\* b is listed for a.
C23_GetNeighbors ==
    \A c \in Cells :
        LET neighbors == get_neighbors(grid_size, c[1], c[2])
            around == {<<c[1] - 1, c[2]>>, <<c[1] + 1, c[2]>>,
                       <<c[1], c[2] - 1>>, <<c[1], c[2] + 1>>}
            sides == Cardinality({i \in 1..2 : c[i] \in {0, grid_size - 1}})
        IN  /\ Elems(neighbors) = around \cap Cells
            /\ Len(neighbors) = Cardinality(Elems(neighbors))
            /\ grid_size >= 3 => Len(neighbors) = 4 - sides
            /\ \A d \in Cells :
                 In(d, neighbors) <=> In(c, get_neighbors(grid_size, d[1], d[2]))

C23_Witness ==
    /\ grid_size = GridSize
    /\ pc = "place"
    /\ Len(get_neighbors(grid_size, 0, 0)) = 2
    /\ Len(get_neighbors(grid_size, 0, 1)) = 3
    /\ Len(get_neighbors(grid_size, 1, 1)) = 4
    /\ \A c \in Cells : Collapsed(grid[c])

\* C24: in run(), a house stands only on a cell whose direct neighbours all
\* hold the terrain type of the cell, and a rock on a mountain_peak cell only
\* when all its direct neighbours hold mountain_peak: two distinct terrain
\* types differ in height by more than the max_slope of house, and
\* mountain_peak differs from every other type by more than the max_slope of
\* rock.
C24_HouseOnlyAmongEqualTypes ==
    /\ \A i \in 1..Len(env_objects_data) :
         LET entry == env_objects_data[i]
             c == CellOf(entry)
         IN  /\ entry.type = "house" =>
                   \A d \in Cells : Adjacent(c, d) => grid[d] = grid[c]
             /\ (entry.type = "rock" /\ grid[c] = StrCell("mountain_peak")) =>
                   \A d \in Cells : Adjacent(c, d) => grid[d] = StrCell("mountain_peak")
    /\ \A t \in Elems(TERRAIN_TYPES), u \in Elems(TERRAIN_TYPES) :
         t # u =>
             /\ Abs(HEIGHT_VALUES[t] - HEIGHT_VALUES[u]) > ObjectSpec("house").max_slope
             /\ t = "mountain_peak" =>
                   Abs(HEIGHT_VALUES[t] - HEIGHT_VALUES[u]) > ObjectSpec("rock").max_slope

C24_Witness ==
    /\ pc = "done"
    /\ grid_size = PlaceGridSize
    /\ \E i \in 1..Len(env_objects_data) :
         /\ env_objects_data[i].type = "house"
         /\ \E d \in Cells : Adjacent(d, CellOf(env_objects_data[i]))
    /\ \E c \in Cells, d \in Cells :
         /\ Adjacent(c, d)
         /\ TypeOf(grid[c]) \in Elems(ObjectSpec("house").valid_terrain)
         /\ grid[d] # grid[c]
         /\ \A i \in 1..Len(env_objects_data) : CellOf(env_objects_data[i]) # c

\* C25: every record of the placement pass has x and y within 0.4 (4 tenths)
\* of the coordinates of the cell it was placed on, so the position rounded
\* to the nearest integer is that cell, and its terrain field is the terrain
\* type the cell holds, in the final grid too.
C25_RecordWithinHostCell ==
    /\ [][Len(env_objects_data') > Len(env_objects_data) =>
            LET entry == env_objects_data'[Len(env_objects_data')]
            IN  /\ Abs(entry.x - 10 * PlaceCell[1]) <= OffsetTenths
                /\ Abs(entry.y - 10 * PlaceCell[2]) <= OffsetTenths
                /\ CellOf(entry) = PlaceCell]_vars
    /\ [](\A i \in 1..Len(env_objects_data) :
            LET entry == env_objects_data[i]
            IN  /\ CellOf(entry) \in Cells
                /\ Abs(entry.x - 10 * CellOf(entry)[1]) <= OffsetTenths
                /\ Abs(entry.y - 10 * CellOf(entry)[2]) <= OffsetTenths
                /\ grid[CellOf(entry)] = StrCell(entry.terrain))

C25_Witness ==
    /\ pc = "done"
    /\ \E i \in 1..Len(env_objects_data) :
         LET entry == env_objects_data[i]
         IN  /\ CellOf(entry)[1] >= 1
             /\ entry.x = 10 * CellOf(entry)[1] - OffsetTenths
             /\ entry.y = 10 * CellOf(entry)[2] + OffsetTenths
    /\ \E i \in 1..Len(env_objects_data) :
         /\ env_objects_data[i].x = -OffsetTenths
         /\ env_objects_data[i].y = 0

====
